---- MODULE Spec2Model ----
(***************************************************************************)
(* Model of face_recognition_demo.py: the Flask handler file_upload, the   *)
(* frame loop and the label finalization of main(), FrameProcessor.process *)
(* and draw_detections, with the process-wide list persons_detected.       *)
(* Strings are sequences of one-character strings.  Distances are in units *)
(* of 1/10000, confidences in hundredths of a percent.  Requests are       *)
(* handled one at a time.                                                  *)
(***************************************************************************)
EXTENDS Integers, Sequences, FiniteSets, TLC

VARIABLES argv, hashOrder, persons_detected, disk, gallery,
          pc, files, path, created, allow_grow, frame_num, frame,
          inferred, detections, recorded, persons, result,
          mainStatus, failure, response

vars == <<argv, hashOrder, persons_detected, disk, gallery,
          pc, files, path, created, allow_grow, frame_num, frame,
          inferred, detections, recorded, persons, result,
          mainStatus, failure, response>>

\* ---------------------------------------------------------------- bounds
MaxFiles == 2
MaxTmp == 2
MaxFrames == 2
MaxFaces == 2
MaxPersons == 3
MaxGallery == 3
MaxNormLen == 2

\* ------------------------------------------------------------- utilities
Range(s) == {s[i] : i \in 1..Len(s)}

SeqsUpTo(S, n) == UNION {[1..k -> S] : k \in 0..n}

Perms(S) == {o \in [1..Cardinality(S) -> S] : Range(o) = S}

CountIn(x, s) == Cardinality({i \in 1..Len(s) : s[i] = x})

\* --------------------------------------------------------------- strings
Alice == <<"A", "l", "i", "c", "e">>
Bob == <<"B", "o", "b">>
Unknown == <<"U", "n", "k", "n", "o", "w", "n">>

DigitSeq == <<"0", "1", "2", "3", "4", "5", "6", "7", "8", "9">>
Digits == Range(DigitSeq)
Whitespace == {" ", "\t", "\n"}

DigitChar(d) == DigitSeq[d + 1]

RECURSIVE ToDigits(_)
ToDigits(n) ==
    IF n < 10 THEN <<DigitChar(n)>>
    ELSE ToDigits(n \div 10) \o <<DigitChar(n % 10)>>

\* ' %.2f%%' % c, with c given in hundredths
FormatPct(c) ==
    <<" ">> \o ToDigits(c \div 100) \o <<".">>
            \o <<DigitChar((c % 100) \div 10), DigitChar(c % 10)>> \o <<"%">>

\* re.sub('[0-9]', '', s)
ReSubDigits(s) == SelectSeq(s, LAMBDA ch : ch \notin Digits)

\* re.sub('.%', '', s): leftmost non-overlapping matches of any character
\* but a newline followed by a percent sign
RECURSIVE ReSubAnyPct(_)
ReSubAnyPct(s) ==
    IF Len(s) < 2 THEN s
    ELSE IF s[1] # "\n" /\ s[2] = "%" THEN ReSubAnyPct(SubSeq(s, 3, Len(s)))
    ELSE <<s[1]>> \o ReSubAnyPct(Tail(s))

RECURSIVE LStrip(_)
LStrip(s) ==
    IF s # <<>> /\ s[1] \in Whitespace THEN LStrip(Tail(s)) ELSE s

RECURSIVE RStrip(_)
RStrip(s) ==
    IF s # <<>> /\ s[Len(s)] \in Whitespace
    THEN RStrip(SubSeq(s, 1, Len(s) - 1)) ELSE s

\* str.strip()
Strip(s) == RStrip(LStrip(s))

\* str.split('.')
RECURSIVE Split(_)
Split(s) ==
    IF \E i \in 1..Len(s) : s[i] = "."
    THEN LET i == CHOOSE j \in 1..Len(s) :
                      s[j] = "." /\ \A k \in 1..(j - 1) : s[k] # "."
         IN <<SubSeq(s, 1, i - 1)>> \o Split(SubSeq(s, i + 1, Len(s)))
    ELSE <<s>>

\* ---------------------------------------------------- identities, labels
UNKNOWN_ID == -1

GalleryAtStartup == <<Alice, Bob>>

Identities ==
    { [id |-> UNKNOWN_ID, distance |-> 5000],
      [id |-> 0, distance |-> 800],
      [id |-> 0, distance |-> 1300],
      [id |-> 1, distance |-> 50] }

\* face_identifier.get_identity_label(id)
get_identity_label(id, db) ==
    IF id = UNKNOWN_ID \/ id >= Len(db) THEN Unknown ELSE db[id + 1]

\* the text draw_detections records for one identity
LabelText(identity, db) ==
    IF identity.id # UNKNOWN_ID
    THEN get_identity_label(identity.id, db) \o FormatPct(10000 - identity.distance)
    ELSE get_identity_label(identity.id, db)

Normalize(s) == Strip(ReSubAnyPct(ReSubDigits(s)))

NormalizeAll(ls) == [i \in 1..Len(ls) |-> Normalize(ls[i])]

FirstIterated(ps, order) == SelectSeq(order, LAMBDA l : l \in Range(ps))[1]

\* iteration of set(persons) in the order this process's string hashing gives
SetIteration(ps, order) == SelectSeq(order, LAMBDA l : l \in Range(ps))

\* max(set(persons), key=persons.count): the first element, in iteration
\* order, whose count is not exceeded
MaxByCount(ps, order) ==
    LET it == SetIteration(ps, order)
        i == CHOOSE j \in 1..Len(it) :
                 /\ \A k \in 1..Len(it) : CountIn(it[k], ps) <= CountIn(it[j], ps)
                 /\ \A k \in 1..(j - 1) : CountIn(it[k], ps) < CountIn(it[j], ps)
    IN it[i]

\* ------------------------------------------------------------ the request
VideoName == <<"v", ".", "m">>
BareName == <<"v">>
Filenames == {VideoName, BareName}

NoPath == [name |-> 0, suffix |-> <<>>]
NoFailure == [type |-> "none", at |-> 0]
NoResponse == [kind |-> "none", body |-> <<>>]

\* the name NamedTemporaryFile picks: one no file on disk has
FreshName(d) ==
    CHOOSE n \in 1..(Cardinality(d) + 1) :
        /\ \A f \in d : f.name # n
        /\ \A m \in 1..(n - 1) : \E f \in d : f.name = m

\* action='store_true' with a default
StoreTrue(given, default) == IF given THEN TRUE ELSE default

\* build_argparser(path).parse_args(): --allow_grow has default False,
\* --no_show has default True
ParseArgs(av) ==
    [allow_grow |-> StoreTrue(av.allow_grow, FALSE),
     no_show |-> StoreTrue(av.no_show, TRUE)]

AllowGrowIgnoringNoShow(args) == args.allow_grow

\* FrameProcessor.__init__: self.allow_grow
AllowGrow(args) == args.allow_grow /\ ~args.no_show

\* except Exception: every error raised here is an Exception
ExceptionTypes ==
    {"IndexError", "UnboundLocalError", "RuntimeError", "ValueError",
     "InferenceError", "OSError"}

CaughtValueErrorOnly(type) == type = "ValueError"

Caught(type) == type \in ExceptionTypes

Raise(type, line) ==
    /\ failure' = [type |-> type, at |-> line]
    /\ pc' = "except"
    /\ mainStatus' = IF mainStatus = "running" THEN "raised" ELSE mainStatus

FrameFailureDropsFrame(line) ==
    /\ failure' = [type |-> "InferenceError", at |-> line]
    /\ pc' = "read"
    /\ UNCHANGED mainStatus

\* an error raised while a frame is processed or drawn: the loop of main()
\* has no handler, the error leaves main()
FrameFailure(line) == Raise("InferenceError", line)

FirstReadNever(n) == FALSE

\* "if frame_num == 0" under "if frame is None"
FirstRead(n) == n = 0

\* ------------------------------------------------------------------ Init
ProgramLabels == {Normalize(LabelText(i, GalleryAtStartup)) : i \in Identities}

Idle ==
    /\ disk = {}
    /\ gallery = GalleryAtStartup
    /\ files = <<>>
    /\ path = NoPath
    /\ created = {}
    /\ allow_grow = FALSE
    /\ frame_num = 0
    /\ frame = "none"
    /\ inferred = <<>>
    /\ detections = <<>>
    /\ recorded = 0
    /\ persons = <<>>
    /\ result = <<>>
    /\ failure = NoFailure
    /\ response = NoResponse

Init ==
    /\ argv \in [allow_grow : BOOLEAN, no_show : BOOLEAN]
    /\ hashOrder \in Perms(ProgramLabels)
    /\ persons_detected = <<>>
    /\ pc = "idle"
    /\ mainStatus = "none"
    /\ Idle

\* ----------------------------------------------------------- file_upload
\* a POST /face_recognition request arrives: request.files.getlist('data')
Post ==
    /\ pc = "idle"
    /\ \E fs \in SeqsUpTo(Filenames, MaxFiles) :
          /\ Cardinality(disk) + Len(fs) <= MaxTmp
          /\ files' = fs
    /\ pc' = "upload"
    /\ path' = NoPath
    /\ created' = {}
    /\ recorded' = 0
    /\ result' = <<>>
    /\ mainStatus' = "none"
    /\ failure' = NoFailure
    /\ response' = NoResponse
    /\ UNCHANGED <<argv, hashOrder, persons_detected, disk, gallery,
                   allow_grow, frame_num, frame, inferred, detections, persons>>

\* one iteration of "for file in data"
SaveUpload ==
    /\ pc = "upload"
    /\ files # <<>>
    /\ LET parts == Split(Head(files))
       IN IF Len(parts) < 2
          THEN /\ Raise("IndexError", 327)
               /\ UNCHANGED <<files, path, created, disk>>
          ELSE LET tmp == [name |-> FreshName(disk), suffix |-> <<".">> \o parts[2]]
               IN /\ disk' = disk \cup {tmp}
                  /\ created' = created \cup {tmp}
                  /\ path' = tmp
                  /\ files' = Tail(files)
                  /\ UNCHANGED <<pc, failure, mainStatus>>
    /\ UNCHANGED <<argv, hashOrder, persons_detected, gallery, allow_grow,
                   frame_num, frame, inferred, detections, recorded, persons,
                   result, response>>

\* persons = main(path)
CallMain ==
    /\ pc = "upload"
    /\ files = <<>>
    /\ IF path = NoPath
       THEN Raise("UnboundLocalError", 333)
       ELSE /\ pc' = "init"
            /\ mainStatus' = "running"
            /\ UNCHANGED failure
    /\ UNCHANGED <<argv, hashOrder, persons_detected, disk, gallery, files,
                   path, created, allow_grow, frame_num, frame, inferred,
                   detections, recorded, persons, result, response>>

\* os.remove(path); return {'Person Identified': str(persons)}
Respond ==
    /\ pc = "cleanup"
    /\ \/ /\ Raise("OSError", 334)
          /\ UNCHANGED <<disk, response, path, persons, allow_grow,
                         frame_num, frame>>
       \/ /\ disk' = disk \ {path}
          /\ allow_grow' = FALSE
          /\ frame_num' = 0
          /\ frame' = "none"
          /\ response' = [kind |-> "ok", body |-> result]
          /\ pc' = "idle"
          /\ path' = NoPath
          /\ persons' = <<>>
          /\ UNCHANGED <<failure, mainStatus>>
    /\ UNCHANGED <<argv, hashOrder, persons_detected, gallery, files, created,
                   inferred, detections, recorded, result>>

\* except Exception as e: return jsonify({"error-message", "error-type"})
Except ==
    /\ pc = "except"
    /\ response' = IF Caught(failure.type)
                   THEN [kind |-> "error", body |-> failure.type]
                   ELSE [kind |-> "uncaught", body |-> failure.type]
    /\ pc' = "idle"
    /\ files' = <<>>
    /\ path' = NoPath
    /\ allow_grow' = FALSE
    /\ frame_num' = 0
    /\ frame' = "none"
    /\ inferred' = <<>>
    /\ detections' = <<>>
    /\ persons' = <<>>
    /\ UNCHANGED <<argv, hashOrder, persons_detected, disk, gallery, created,
                   recorded, result, mainStatus, failure>>

\* ------------------------------------------------------------------ main
\* lines 242-260: parse the arguments, open the capture, build the
\* FrameProcessor (and with it the faces database)
MainInit ==
    /\ pc = "init"
    /\ \/ /\ Raise("RuntimeError", 244)
          /\ UNCHANGED <<allow_grow, frame_num>>
       \/ /\ allow_grow' = AllowGrow(ParseArgs(argv))
          /\ frame_num' = 0
          /\ pc' = "read"
          /\ UNCHANGED <<failure, mainStatus>>
    /\ UNCHANGED <<argv, hashOrder, persons_detected, disk, gallery, files,
                   path, created, frame, inferred, detections, recorded,
                   persons, result, response>>

\* frame = cap.read() and the test of "frame is None"
ReadFrame ==
    /\ pc = "read"
    /\ \E f \in {"none", "frame"} :
          /\ f = "frame" => frame_num < MaxFrames
          /\ frame' = f
          /\ IF f = "none"
             THEN IF FirstRead(frame_num)
                  THEN Raise("ValueError", 267)
                  ELSE /\ pc' = "l304"
                       /\ UNCHANGED <<failure, mainStatus>>
             ELSE /\ pc' = "process"
                  /\ UNCHANGED <<failure, mainStatus>>
    /\ UNCHANGED <<argv, hashOrder, persons_detected, disk, gallery, files,
                   path, created, allow_grow, frame_num, inferred, detections,
                   recorded, persons, result, response>>

\* the unknown faces of a frame, by index
Unknowns(ids) == {i \in 1..Len(ids) : ids[i].id = UNKNOWN_ID}

\* dump_faces for the faces in saved, in index order: each becomes a new
\* entry of the database and the face takes the entry's id
Grown(ids, db, saved, name) ==
    [i \in 1..Len(ids) |->
        IF i \in saved
        THEN [ids[i] EXCEPT !.id = Len(db) + Cardinality({j \in saved : j < i})]
        ELSE ids[i]]

\* detections = frame_processor.process(frame)
Process ==
    /\ pc = "process"
    /\ \/ /\ FrameFailure(283)
          /\ UNCHANGED <<inferred, detections, gallery>>
       \/ /\ \E ids \in SeqsUpTo(Identities, MaxFaces) :
                /\ Len(persons_detected) + Len(ids) <= MaxPersons
                /\ inferred' = ids
                /\ IF allow_grow /\ Unknowns(ids) # {}
                   THEN \E saved \in SUBSET Unknowns(ids) :
                        \E name \in Range(GalleryAtStartup) :
                           /\ Len(gallery) + Cardinality(saved) <= MaxGallery
                           /\ detections' = Grown(ids, gallery, saved, name)
                           /\ gallery' = gallery \o [k \in 1..Cardinality(saved) |-> name]
                   ELSE /\ detections' = ids
                        /\ UNCHANGED gallery
          /\ pc' = "draw"
          /\ UNCHANGED <<failure, mainStatus>>
    /\ UNCHANGED <<argv, hashOrder, persons_detected, disk, files, path,
                   created, allow_grow, frame_num, frame, recorded, persons,
                   result, response>>

\* the labels draw_detections appends for the detections of one frame
FrameLabels(ds, db) == [i \in 1..Len(ds) |-> LabelText(ds[i], db)]

\* lines 285-302: draw_detections, frame_num += 1, and the key press that
\* ends the loop when the output window is shown
DrawDetections ==
    /\ pc = "draw"
    /\ LET labels == FrameLabels(detections, gallery)
       IN \/ \E k \in 0..Len(labels) :
                /\ persons_detected' = persons_detected \o SubSeq(labels, 1, k)
                /\ recorded' = recorded + k
                /\ FrameFailure(286)
                /\ UNCHANGED <<frame_num, inferred, detections>>
          \/ /\ persons_detected' = persons_detected \o labels
             /\ recorded' = recorded + Len(labels)
             /\ frame_num' = frame_num + 1
             /\ inferred' = <<>>
             /\ detections' = <<>>
             /\ \E quit \in BOOLEAN :
                   /\ quit => ~ParseArgs(argv).no_show
                   /\ pc' = IF quit THEN "l304" ELSE "read"
             /\ UNCHANGED <<failure, mainStatus>>
    /\ UNCHANGED <<argv, hashOrder, disk, gallery, files, path, created,
                   allow_grow, frame, persons, result, response>>

\* persons = persons_detected; persons = [re.sub('[0-9]', '', i) ...]
StripDigits ==
    /\ pc = "l304"
    /\ persons' = [i \in 1..Len(persons_detected) |-> ReSubDigits(persons_detected[i])]
    /\ pc' = "l305"
    /\ UNCHANGED <<argv, hashOrder, persons_detected, disk, gallery, files,
                   path, created, allow_grow, frame_num, frame, inferred,
                   detections, recorded, result, mainStatus, failure, response>>

\* persons = [re.sub('.%', '', i) for i in persons]
StripPercent ==
    /\ pc = "l305"
    /\ persons' = [i \in 1..Len(persons) |-> ReSubAnyPct(persons[i])]
    /\ pc' = "l306"
    /\ UNCHANGED <<argv, hashOrder, persons_detected, disk, gallery, files,
                   path, created, allow_grow, frame_num, frame, inferred,
                   detections, recorded, result, mainStatus, failure, response>>

\* persons = [i.strip() for i in persons]
StripSpace ==
    /\ pc = "l306"
    /\ persons' = [i \in 1..Len(persons) |-> Strip(persons[i])]
    /\ pc' = "l307"
    /\ UNCHANGED <<argv, hashOrder, persons_detected, disk, gallery, files,
                   path, created, allow_grow, frame_num, frame, inferred,
                   detections, recorded, result, mainStatus, failure, response>>

\* persons = max(set(persons), key=persons.count); return persons
Majority ==
    /\ pc = "l307"
    /\ IF persons = <<>>
       THEN /\ Raise("ValueError", 307)
            /\ UNCHANGED result
       ELSE /\ result' = MaxByCount(persons, hashOrder)
            /\ mainStatus' = "returned"
            /\ pc' = "cleanup"
            /\ UNCHANGED failure
    /\ UNCHANGED <<argv, hashOrder, persons_detected, disk, gallery, files,
                   path, created, allow_grow, frame_num, frame, inferred,
                   detections, recorded, persons, response>>

\* --------------------------------------------------------- specifications
Next ==
    \/ Post
    \/ SaveUpload
    \/ CallMain
    \/ MainInit
    \/ ReadFrame
    \/ Process
    \/ DrawDetections
    \/ StripDigits
    \/ StripPercent
    \/ StripSpace
    \/ Majority
    \/ Respond
    \/ Except

Spec == Init /\ [][Next]_vars

\* ---------------------------------------------------------------- claims
\* the labels draw_detections recorded during the current run of main()
ThisRun ==
    SubSeq(persons_detected, Len(persons_detected) - recorded + 1,
           Len(persons_detected))

\* C1: the label a run returns is the majority label of the labels recorded
\* during that run only; labels of earlier runs do not count.
C1_RunScoped ==
    (pc = "cleanup" /\ recorded > 0)
        => result = MaxByCount(NormalizeAll(ThisRun), hashOrder)

\* C3: the label main() returns occurs in the normalized list of recorded
\* labels and no normalized label occurs strictly more often.
C3_Majority ==
    pc = "cleanup" =>
        LET n == NormalizeAll(persons_detected)
        IN /\ result \in Range(n)
           /\ \A l \in Range(n) : CountIn(l, n) <= CountIn(result, n)

C3_Witness ==
    /\ pc = "cleanup"
    /\ persons_detected =
          <<Alice \o FormatPct(9200), Alice \o FormatPct(8700), Bob \o FormatPct(9950)>>
    /\ result = Alice

\* C4: a run of main() that recorded no label raises; it never returns a
\* label.
C4_EmptyRunRaises == pc = "cleanup" => recorded > 0

\* C5: the label returned depends on the recorded sequence only: any
\* iteration order of set(persons) gives the same label.
C5_OrderIndependent ==
    pc = "cleanup" =>
        \A o \in Perms(Range(persons)) : MaxByCount(persons, o) = result

\* C6 as stated: a failure while a frame is processed or drawn drops the
\* frame and the loop goes on with the next read.
C6_FrameDropped ==
    [][(pc \in {"process", "draw"} /\ failure'.type = "InferenceError")
          => pc' = "read"]_vars

\* C6 amended: a failure while a frame is processed or drawn ends the run:
\* the error leaves main(), no frame is read after it, no label is
\* finalized, and the request is answered with the error envelope.
C6_FrameFailureFatal ==
    failure.type = "InferenceError" =>
        /\ pc \in {"except", "idle"}
        /\ mainStatus = "raised"
        /\ result = <<>>
        /\ pc = "idle" => response = [kind |-> "error", body |-> "InferenceError"]

C6_Witness ==
    /\ pc = "except"
    /\ failure.type = "InferenceError"
    /\ frame_num >= 1

\* C7: a read that returns no frame raises out of main() when it is the
\* first read, and otherwise ends the loop and goes on to finalization; the
\* error of line 267 is raised by nothing else, and no label is returned
\* with it.
C7_ReadNone ==
    /\ [][pc = "read" =>
            /\ (frame' = "none" /\ frame_num = 0) =>
                  /\ pc' = "except"
                  /\ mainStatus' = "raised"
                  /\ failure' = [type |-> "ValueError", at |-> 267]
            /\ (frame' = "none" /\ frame_num > 0) =>
                  /\ pc' = "l304"
                  /\ mainStatus' = "running"
                  /\ failure' = NoFailure
            /\ frame' = "frame" => pc' = "process"]_vars
    /\ [][(failure'.at = 267 /\ failure.at # 267) =>
            (pc = "read" /\ frame_num = 0 /\ frame' = "none")]_vars
    /\ [](failure.at = 267 => (result = <<>> /\ response.kind # "ok"))

C7_Witness ==
    /\ pc = "l304"
    /\ frame = "none"
    /\ frame_num >= 1
    /\ failure = NoFailure

C9_NoGrowth ==
    /\ ParseArgs(argv).no_show => ~allow_grow
    /\ ~allow_grow =>
          /\ gallery = GalleryAtStartup
          /\ pc = "draw" => detections = inferred

C9_Witness ==
    /\ pc = "draw"
    /\ argv.allow_grow
    /\ Unknowns(inferred) # {}
    /\ gallery = GalleryAtStartup
    /\ detections = inferred

\* C10: when a request has been answered, no temporary file the handler
\* created for it is left on disk.
C10_NoTempLeft == pc = "idle" => created \cap disk = {}

\* The finalization of main() applied to lists of labels drawn from
\* NormInputs, from the state main() is in when its frame loop has ended
BobLoose == Bob \o <<" ", " ", " ", "1", "2", ".", "0", "0", " ", "%">>

NormInputs ==
    { Bob \o FormatPct(9950), BobLoose,
      Alice \o FormatPct(9200), Alice \o FormatPct(8700), Unknown }

NormInit ==
    /\ argv = [allow_grow |-> FALSE, no_show |-> FALSE]
    /\ persons_detected \in SeqsUpTo(NormInputs, MaxNormLen)
    /\ hashOrder \in Perms({Normalize(l) : l \in Range(persons_detected)})
    /\ pc = "l304"
    /\ mainStatus = "running"
    /\ Idle

NormNext == StripDigits \/ StripPercent \/ StripSpace \/ Majority \/ Except

NormSpec == NormInit /\ [][NormNext]_vars

\* C2: "Bob 99.50%" and "Bob   12.00 %" are both counted under "Bob", and
\* "Alice 92.00%" and "Alice 87.00%" are both counted under "Alice".
C2_SameKey ==
    pc = "l307" =>
        \A i \in 1..Len(persons_detected) :
            /\ persons_detected[i] \in {Bob \o FormatPct(9950), BobLoose}
                  => persons[i] = Bob
            /\ persons_detected[i] \in {Alice \o FormatPct(9200), Alice \o FormatPct(8700)}
                  => persons[i] = Alice

====
